---- MODULE Spec2Model ----
(***************************************************************************)
(* Enrollment / attendance consistency subsystem of edu-manage.            *)
(*                                                                         *)
(* The persistent state is the courses collection (seat counter            *)
(* currentEnrollment, capacity maxStudents, approval flags), the           *)
(* enrollments collection and the attendance collection.  The request      *)
(* handlers are modelled twice: as whole handlers executed one at a time   *)
(* (SpecLedger) and as the sequence of their storage steps, interleaved    *)
(* between concurrent requests (SpecConc, SpecAttend).  The in-memory      *)
(* MockModel store is modelled on its own (SpecStore, SpecQuery, SpecIds,  *)
(* SpecDurable).  The grading routes work on the assignment, the           *)
(* submissions and the course grades (SpecGrade, SpecSubmit, SpecFinal);   *)
(* SpecAll runs the routes of all collections on one store.                *)
(***************************************************************************)
EXTENDS Integers, Sequences, FiniteSets, TLC

(* ------------------------------ bounds --------------------------------- *)
NumStudents == 2
NumCourses == 1
MaxSeats == 2
NumProcs == 2
NumDates == 2
MaxRows == 2
MaxMockId == 3
MaxSessions == 2
Resolution == 2
PercentMargin == 2
NumSubmitters == 1
MaxTime == 3

Students == 1..NumStudents
Courses == 1..NumCourses
Procs == 1..NumProcs
Dates == 1..NumDates
Submitters == 1..NumSubmitters
Times == 0..MaxTime

EnrollmentStatuses == {"enrolled", "completed", "dropped", "suspended"}
AttendanceStatuses == {"present", "absent", "late", "excused"}

VARIABLES
  courses,      \* courses collection: course id -> course document
  enrollments,  \* enrollments collection: set of enrollment documents
  attendance,   \* attendance collection: set of session documents
  last,         \* response of the most recent whole-handler operation
  pc,           \* per request: the storage step it is about to run
  req,          \* per request: its arguments and local variables
  mockRows,     \* MockModel storage.enrollments
  mockNextId,   \* MockModel storage.nextId.enrollment
  graded,       \* the submission or course grade document saved last
  assignment,   \* assignments collection: the assignment document, if created
  submissions,  \* submissions collection: student -> submission document
  clock,        \* the time new Date() returns
  grades,       \* grades collection: (student, course) -> course grade document
  mockSessions, \* MockModel storage.attendance
  mockSessionNextId \* MockModel storage.nextId[idKey] of the attendance collection

vars == <<courses, enrollments, attendance, last, pc, req, mockRows, mockNextId, graded,
          assignment, submissions, clock, grades, mockSessions, mockSessionNextId>>

\* the collections of the grading routes
grading == <<assignment, submissions, clock, grades>>

\* the attendance collection of the in-memory store
sessionStore == <<mockSessions, mockSessionNextId>>

(* --------------------------- grade hooks ------------------------------- *)
\* A percentage is a multiple of 1/Resolution, held as its numerator; the
\* inputs run from PercentMargin below 0 to PercentMargin above 100.
Percentages == (0 - PercentMargin * Resolution)..((100 + PercentMargin) * Resolution)

\* percentage >= n
AtLeast(p, n) == p >= n * Resolution

\* a letterGrade that was never assigned
Undefined == "undefined"

\* a percentage field: the empty set when it is undefined, else the set of
\* its one value
Some(p) == {p}
ValueOf(field) == CHOOSE p \in field : TRUE

\* no document saved yet
NoGrade == [kind |-> "none"]

\* percentage >= n, mutated: the bound itself is excluded
Above(p, n) == p > n * Resolution

\* the chain of submissionSchema.pre('save'), mutated: exclusive bounds
SubmissionLetterExclusive(p) ==
  IF Above(p, 97) THEN "A+"
  ELSE IF Above(p, 93) THEN "A"
  ELSE IF Above(p, 90) THEN "A-"
  ELSE IF Above(p, 87) THEN "B+"
  ELSE IF Above(p, 83) THEN "B"
  ELSE IF Above(p, 80) THEN "B-"
  ELSE IF Above(p, 77) THEN "C+"
  ELSE IF Above(p, 73) THEN "C"
  ELSE IF Above(p, 70) THEN "C-"
  ELSE IF Above(p, 67) THEN "D+"
  ELSE IF Above(p, 60) THEN "D"
  ELSE "F"

\* the if / else-if chain of submissionSchema.pre('save')
SubmissionLetter(p) ==
  IF AtLeast(p, 97) THEN "A+"
  ELSE IF AtLeast(p, 93) THEN "A"
  ELSE IF AtLeast(p, 90) THEN "A-"
  ELSE IF AtLeast(p, 87) THEN "B+"
  ELSE IF AtLeast(p, 83) THEN "B"
  ELSE IF AtLeast(p, 80) THEN "B-"
  ELSE IF AtLeast(p, 77) THEN "C+"
  ELSE IF AtLeast(p, 73) THEN "C"
  ELSE IF AtLeast(p, 70) THEN "C-"
  ELSE IF AtLeast(p, 67) THEN "D+"
  ELSE IF AtLeast(p, 60) THEN "D"
  ELSE "F"

\* submissionSchema.pre('save'): letterGrade is assigned when
\* grade.percentage !== undefined
SubmissionPreSave(doc) ==
  IF doc.percentage # {}
  THEN [doc EXCEPT !.letterGrade = SubmissionLetter(ValueOf(doc.percentage))]
  ELSE doc

\* the letter chain of gradeSchema.pre('save'): A+, A, A- as listed; the
\* branches the listing abridges ("... etc") are those of the submission chain
GradeLetter(p) ==
  IF AtLeast(p, 97) THEN "A+"
  ELSE IF AtLeast(p, 93) THEN "A"
  ELSE IF AtLeast(p, 90) THEN "A-"
  ELSE SubmissionLetter(p)

\* the GPA chain of gradeSchema.pre('save'), in tenths of a grade point
GradeGpa(p) ==
  IF AtLeast(p, 97) THEN 40
  ELSE IF AtLeast(p, 93) THEN 40
  ELSE IF AtLeast(p, 90) THEN 37
  ELSE IF AtLeast(p, 87) THEN 33
  ELSE IF AtLeast(p, 83) THEN 30
  ELSE IF AtLeast(p, 80) THEN 27
  ELSE IF AtLeast(p, 77) THEN 23
  ELSE IF AtLeast(p, 73) THEN 20
  ELSE IF AtLeast(p, 70) THEN 17
  ELSE IF AtLeast(p, 67) THEN 13
  ELSE IF AtLeast(p, 60) THEN 10
  ELSE 0

\* gradeSchema.pre('save'): letterGrade and gpa are assigned when
\* percentage !== undefined
GradePreSave(doc) ==
  IF doc.percentage # {}
  THEN [doc EXCEPT !.letterGrade = GradeLetter(ValueOf(doc.percentage)),
                   !.gpa = GradeGpa(ValueOf(doc.percentage))]
  ELSE doc

\* the letter chain of the hook as the code map lists it for Submission.js or
\* Grade.js: it starts at 93 with A; the abridged branches below B+ are those
\* of the submission chain
CodeMapLetter(p) ==
  IF AtLeast(p, 93) THEN "A"
  ELSE IF AtLeast(p, 90) THEN "A-"
  ELSE IF AtLeast(p, 87) THEN "B+"
  ELSE SubmissionLetter(p)

\* that hook: letterGrade is assigned when grade.percentage is truthy, which
\* an undefined percentage and the percentage 0 are not
CodeMapPreSave(doc) ==
  IF doc.percentage # {} /\ doc.percentage # Some(0)
  THEN [doc EXCEPT !.letterGrade = CodeMapLetter(ValueOf(doc.percentage))]
  ELSE doc

(* ------------------------------ helpers -------------------------------- *)
Max(a, b) == IF a >= b THEN a ELSE b

RECURSIVE GCD(_, _)
GCD(a, b) == IF b = 0 THEN a ELSE GCD(b, a % b)

\* an exact fraction n/d in lowest terms, d > 0
Frac(n, d) == LET g == GCD(n, d) IN IF g = 0 THEN <<0, 1>> ELSE <<n \div g, d \div g>>

\* the documents of course c whose status is one of statuses
RowsOf(enrs, c, statuses) ==
  {e \in enrs : e.course = c /\ e.status \in statuses}

\* the response of a handler: which operation ran and the error kind it
\* returned ("ok" on success)
Response(op, result) == [op |-> op, result |-> result, course |-> 0, full |-> FALSE]

\* the response of a successful drop, with the course it released a seat of and
\* whether that course was full when the drop started
DropResponse(c, full) == [op |-> "drop", result |-> "ok", course |-> c, full |-> full]

\* a request slot that holds no request
NoRequest == [op |-> "none"]

(* ------------------------- grading documents --------------------------- *)
\* no assignment, submission or course grade document stored
NoAssignment == [kind |-> "none"]
NoSubmission == [kind |-> "none"]
NoCourseGrade == [kind |-> "none"]

\* the grading collections are empty and the clock is at its start
GradingInit ==
  /\ assignment = NoAssignment
  /\ submissions = [s \in Submitters |-> NoSubmission]
  /\ clock = 0
  /\ grades = [x \in Students \X Courses |-> NoCourseGrade]

(* ----------------------- MockModel id counters ------------------------- *)
\* A collection name and a key of storage.nextId are strings, held as the
\* sequences of their characters.
UsersName == <<"u", "s", "e", "r", "s">>
CoursesName == <<"c", "o", "u", "r", "s", "e", "s">>
EnrollmentsName == <<"e", "n", "r", "o", "l", "l", "m", "e", "n", "t", "s">>
AssignmentsName == <<"a", "s", "s", "i", "g", "n", "m", "e", "n", "t", "s">>
SubmissionsName == <<"s", "u", "b", "m", "i", "s", "s", "i", "o", "n", "s">>
GradesName == <<"g", "r", "a", "d", "e", "s">>
NotificationsName ==
  <<"n", "o", "t", "i", "f", "i", "c", "a", "t", "i", "o", "n", "s">>
MessagesName == <<"m", "e", "s", "s", "a", "g", "e", "s">>
AttendanceName == <<"a", "t", "t", "e", "n", "d", "a", "n", "c", "e">>

\* static collectionName of the nine models
CollectionNames ==
  {UsersName, CoursesName, EnrollmentsName, AssignmentsName, SubmissionsName,
   GradesName, NotificationsName, MessagesName, AttendanceName}

\* the keys of storage.nextId: user, course, enrollment, assignment,
\* submission, grade, notification, message, attendance
NextIdKeys ==
  {<<"u", "s", "e", "r">>,
   <<"c", "o", "u", "r", "s", "e">>,
   <<"e", "n", "r", "o", "l", "l", "m", "e", "n", "t">>,
   <<"a", "s", "s", "i", "g", "n", "m", "e", "n", "t">>,
   <<"s", "u", "b", "m", "i", "s", "s", "i", "o", "n">>,
   <<"g", "r", "a", "d", "e">>,
   <<"n", "o", "t", "i", "f", "i", "c", "a", "t", "i", "o", "n">>,
   <<"m", "e", "s", "s", "a", "g", "e">>,
   <<"a", "t", "t", "e", "n", "d", "a", "n", "c", "e">>}

\* collection.slice(0, -1)
IdKey(collection) == SubSeq(collection, 1, Len(collection) - 1)

\* the values of an _id or a counter that are not numbers 1, 2, ...: the
\* value undefined and the number NaN; 0 is an instance's missing _id
JsUndefined == 0 - 2
NaN == 0 - 1

\* storage.nextId[idKey] before the first save: 1 for a key of nextId,
\* undefined for any other key
InitialNextId(idKey) == IF idKey \in NextIdKeys THEN 1 ELSE JsUndefined

\* counter++: the value the expression yields and the value stored back;
\* undefined converts to NaN and NaN + 1 is NaN
PostIncrement(counter) ==
  IF counter \in {JsUndefined, NaN}
  THEN [value |-> NaN, next |-> NaN]
  ELSE [value |-> counter, next |-> counter + 1]

\* if (this._id): undefined, 0 and NaN are falsy
Truthy(id) == id \notin {JsUndefined, 0, NaN}

\* a === b on ids: NaN equals nothing, itself included
StrictEquals(a, b) == a # NaN /\ b # NaN /\ a = b

\* the attendance collection is empty and its counter untouched
SessionStoreInit ==
  /\ mockSessions = <<>>
  /\ mockSessionNextId = InitialNextId(IdKey(AttendanceName))

(* ------------------------------ Course --------------------------------- *)
\* POST /api/courses: maxStudents >= 1, currentEnrollment defaults to 0,
\* isApproved = false until an admin approves, isActive defaults to true
NewCourse(maxStudents) ==
  [maxStudents |-> maxStudents, currentEnrollment |-> 0,
   isApproved |-> FALSE, isActive |-> TRUE]

\* courseSchema.virtual('isFullyEnrolled'), mutated: off-by-one comparison
isFullyEnrolledOffByOne(course) == course.currentEnrollment > course.maxStudents

\* courseSchema.virtual('isFullyEnrolled')
isFullyEnrolled(course) == course.currentEnrollment >= course.maxStudents

\* enroll's first check, "course exists and is approved" (403: course not
\* approved yet); the handler does not look at isActive
CourseNotOpen(course) == ~course.isApproved

\* Course.findByIdAndUpdate(courseId, { $inc: { currentEnrollment: 1 } })
IncCurrentEnrollment(crs, c) ==
  [crs EXCEPT ![c].currentEnrollment = @ + 1]

\* drop's counter write, mutated: decrement without the floor
DecCurrentEnrollmentNoFloor(crs, c) ==
  [crs EXCEPT ![c].currentEnrollment = @ - 1]

\* drop's counter write: decrement by 1, floor at 0
DecCurrentEnrollment(crs, c) ==
  [crs EXCEPT ![c].currentEnrollment = Max(@ - 1, 0)]

(* ---------------------------- Enrollment ------------------------------- *)
\* Enrollment document created by enroll: status enrolled, attendance zeroed
NewEnrollment(id, s, c) ==
  [_id |-> id, student |-> s, course |-> c, status |-> "enrolled",
   totalClasses |-> 0, attendedClasses |-> 0, attendancePercentage |-> <<0, 1>>,
   completionDate |-> FALSE]

\* enrollmentSchema.index({ student: 1, course: 1 }, { unique: true }), mutated:
\* the index is not enforced
UniqueIndexNotEnforced(enrs, s, c) == FALSE

\* enrollmentSchema.index({ student: 1, course: 1 }, { unique: true }):
\* a create for a (student, course) pair that already has a document fails (E11000)
UniqueIndexViolation(enrs, s, c) ==
  \E e \in enrs : e.student = s /\ e.course = c

\* the _id given to a new Enrollment document: an opaque unique token, taken
\* here as the number of its (student, course) pair
EnrollmentId(s, c) == (c - 1) * NumStudents + s

EnrollmentIds == 1..(NumStudents * NumCourses + 1)

\* Enrollment.findById(id): the documents with that _id (none when missing)
FindById(enrs, id) == {e \in enrs : e._id = id}

\* Enrollment.create({ student, course, status: 'enrolled' }): the document is
\* stored unless the unique index rejects it
EnrollmentCreate(enrs, id, s, c) ==
  IF UniqueIndexViolation(enrs, s, c)
  THEN [ok |-> FALSE, enrollments |-> enrs]
  ELSE [ok |-> TRUE, enrollments |-> enrs \cup {NewEnrollment(id, s, c)}]

\* enrollmentSchema.pre('save'): the save throws Error('Course is full') when
\* the course, read again by the hook, is full; the handler answers such an
\* exception with the response kind SaveError
EnrollmentPreSaveRejects(course) == course.currentEnrollment >= course.maxStudents

\* drop's terminal-status guard, mutated: a completed enrollment can be dropped
IsTerminalOnlyDropped(status) == status = "dropped"

\* drop's terminal-status guard: completed and dropped are terminal
IsTerminal(status) == status \in {"completed", "dropped"}

(* ------------------- whole handlers, one at a time --------------------- *)
Init ==
  /\ courses \in [Courses -> {NewCourse(m) : m \in 1..MaxSeats}]
  /\ enrollments = {}
  /\ attendance = {}
  /\ last = Response("none", "none")
  /\ pc = [p \in Procs |-> "idle"]
  /\ req = [p \in Procs |-> NoRequest]
  /\ mockRows = <<>>
  /\ mockNextId = 1
  /\ graded = NoGrade
  /\ GradingInit
  /\ SessionStoreInit

\* PUT /api/courses/:id/approve
ApproveCourse(c) ==
  /\ courses' = [courses EXCEPT ![c].isApproved = TRUE]
  /\ last' = Response("approve", "ok")
  /\ UNCHANGED <<enrollments, attendance, pc, req, mockRows, mockNextId, graded, grading, sessionStore>>

\* DELETE /api/courses/:id (soft delete), refused while students are enrolled
DeleteCourse(c) ==
  /\ IF courses[c].currentEnrollment > 0
     THEN /\ last' = Response("deleteCourse", "BadRequest")
          /\ UNCHANGED courses
     ELSE /\ courses' = [courses EXCEPT ![c].isActive = FALSE]
          /\ last' = Response("deleteCourse", "ok")
  /\ UNCHANGED <<enrollments, attendance, pc, req, mockRows, mockNextId, graded, grading, sessionStore>>

\* POST /api/enrollments.  fault: the counter write is rejected by the storage
\* layer after the Enrollment document has been created.
Enroll(s, c, fault) ==
  LET course == courses[c]
      created == EnrollmentCreate(enrollments, EnrollmentId(s, c), s, c)
  IN
  /\ IF CourseNotOpen(course)
     THEN /\ last' = Response("enroll", "CourseNotApprovedError")
          /\ UNCHANGED <<courses, enrollments>>
     ELSE IF isFullyEnrolled(course)
     THEN /\ last' = Response("enroll", "CourseFullError")
          /\ UNCHANGED <<courses, enrollments>>
     ELSE IF EnrollmentPreSaveRejects(courses[c])
     THEN /\ last' = Response("enroll", "SaveError")
          /\ UNCHANGED <<courses, enrollments>>
     ELSE IF ~created.ok
     THEN /\ last' = Response("enroll", "DuplicateEnrollmentError")
          /\ UNCHANGED <<courses, enrollments>>
     ELSE /\ Cardinality(enrollments) < MaxRows
          /\ enrollments' = created.enrollments
          /\ IF fault
             THEN /\ last' = Response("enroll", "StorageError")
                  /\ UNCHANGED courses
             ELSE /\ courses' = IncCurrentEnrollment(courses, c)
                  /\ last' = Response("enroll", "ok")
  /\ UNCHANGED <<attendance, pc, req, mockRows, mockNextId, graded, grading, sessionStore>>

\* the status update, mutated: it also resets the attendance counters
WithStatusResetsAttendance(e, status) ==
  [e EXCEPT !.status = status, !.completionDate = TRUE,
            !.totalClasses = 0, !.attendedClasses = 0]

\* the enrollment document e with its status set to a terminal status
WithStatus(e, status) == [e EXCEPT !.status = status, !.completionDate = TRUE]

\* DELETE /api/enrollments/:id
Drop(id) ==
  LET found == FindById(enrollments, id) IN
  /\ IF found = {}
     THEN /\ last' = Response("drop", "NotFoundError")
          /\ UNCHANGED <<courses, enrollments>>
     ELSE \E e \in found :
          IF IsTerminal(e.status)
          THEN /\ last' = Response("drop", "AlreadyTerminalError")
               /\ UNCHANGED <<courses, enrollments>>
          ELSE /\ enrollments' = (enrollments \ {e}) \cup {WithStatus(e, "dropped")}
               /\ courses' = DecCurrentEnrollment(courses, e.course)
               /\ last' = DropResponse(e.course, isFullyEnrolled(courses[e.course]))
  /\ UNCHANGED <<attendance, pc, req, mockRows, mockNextId, graded, grading, sessionStore>>

\* PUT /api/enrollments/:id { status: "completed" }, mutated: completing
\* releases the seat as a drop does
CompleteReleasesSeat(id) ==
  LET found == FindById(enrollments, id) IN
  /\ IF found = {}
     THEN /\ last' = Response("complete", "NotFoundError")
          /\ UNCHANGED <<courses, enrollments>>
     ELSE \E e \in found :
          /\ enrollments' = (enrollments \ {e}) \cup {WithStatus(e, "completed")}
          /\ courses' = DecCurrentEnrollment(courses, e.course)
          /\ last' = Response("complete", "ok")
  /\ UNCHANGED <<attendance, pc, req, mockRows, mockNextId, graded, grading, sessionStore>>

\* PUT /api/enrollments/:id { status: "completed" }
Complete(id) ==
  LET found == FindById(enrollments, id) IN
  /\ IF found = {}
     THEN /\ last' = Response("complete", "NotFoundError")
          /\ UNCHANGED enrollments
     ELSE \E e \in found :
          /\ enrollments' = (enrollments \ {e}) \cup {WithStatus(e, "completed")}
          /\ last' = Response("complete", "ok")
  /\ UNCHANGED <<courses, attendance, pc, req, mockRows, mockNextId, graded, grading, sessionStore>>

NextLedger ==
  \/ \E c \in Courses : ApproveCourse(c)
  \/ \E c \in Courses : DeleteCourse(c)
  \/ \E s \in Students, c \in Courses, fault \in BOOLEAN : Enroll(s, c, fault)
  \/ \E id \in EnrollmentIds : Drop(id)
  \/ \E id \in EnrollmentIds : Complete(id)

SpecLedger == Init /\ [][NextLedger]_vars

(* ------------- enroll as storage steps of concurrent requests ---------- *)
\* the request p returns: its slot is free again and holds its response
Return(p, op, result) ==
  /\ pc' = [pc EXCEPT ![p] = "idle"]
  /\ req' = [req EXCEPT ![p] = [op |-> op, result |-> result]]

\* step 1, read: course = Course.findById(courseId)
EnrollRead(p, s, c) ==
  /\ pc[p] = "idle"
  /\ pc' = [pc EXCEPT ![p] = "check"]
  /\ req' = [req EXCEPT ![p] = [op |-> "enroll", student |-> s, course |-> c,
                                 snap |-> courses[c]]]
  /\ UNCHANGED <<courses, enrollments, attendance, last, mockRows, mockNextId, graded, grading, sessionStore>>

\* step 2, capacity check on the course that was read
EnrollCheck(p) ==
  /\ pc[p] = "check"
  /\ IF CourseNotOpen(req[p].snap)
     THEN Return(p, "enroll", "CourseNotApprovedError")
     ELSE IF isFullyEnrolled(req[p].snap)
     THEN Return(p, "enroll", "CourseFullError")
     ELSE /\ pc' = [pc EXCEPT ![p] = "create"]
          /\ UNCHANGED req
  /\ UNCHANGED <<courses, enrollments, attendance, last, mockRows, mockNextId, graded, grading, sessionStore>>

\* step 3, Enrollment.create: pre-save hook, unique index, insert
EnrollSave(p) ==
  LET s == req[p].student
      c == req[p].course
      created == EnrollmentCreate(enrollments, EnrollmentId(s, c), s, c)
  IN
  /\ pc[p] = "create"
  /\ IF EnrollmentPreSaveRejects(courses[c])
     THEN Return(p, "enroll", "SaveError") /\ UNCHANGED enrollments
     ELSE IF ~created.ok
     THEN Return(p, "enroll", "DuplicateEnrollmentError") /\ UNCHANGED enrollments
     ELSE /\ Cardinality(enrollments) < MaxRows
          /\ enrollments' = created.enrollments
          /\ pc' = [pc EXCEPT ![p] = "inc"]
          /\ UNCHANGED req
  /\ UNCHANGED <<courses, attendance, last, mockRows, mockNextId, graded, grading, sessionStore>>

\* step 4, Course.findByIdAndUpdate(courseId, { $inc: { currentEnrollment: 1 } })
EnrollInc(p, fault) ==
  /\ pc[p] = "inc"
  /\ IF fault
     THEN Return(p, "enroll", "StorageError") /\ UNCHANGED courses
     ELSE /\ courses' = IncCurrentEnrollment(courses, req[p].course)
          /\ Return(p, "enroll", "ok")
  /\ UNCHANGED <<enrollments, attendance, last, mockRows, mockNextId, graded, grading, sessionStore>>

NextConc ==
  \/ \E c \in Courses : ApproveCourse(c)
  \/ \E p \in Procs, s \in Students, c \in Courses : EnrollRead(p, s, c)
  \/ \E p \in Procs : EnrollCheck(p)
  \/ \E p \in Procs : EnrollSave(p)
  \/ \E p \in Procs, fault \in BOOLEAN : EnrollInc(p, fault)

SpecConc == Init /\ [][NextConc]_vars

(* ------------- recordSession as storage steps of requests -------------- *)
\* the students array of a request: the listed students and their statuses
SessionLists ==
  UNION {[S -> AttendanceStatuses] : S \in (SUBSET Students) \ {{}}}

\* the next student of the loop over the students array
NextStudent(todo) == CHOOSE s \in todo : \A o \in todo : s <= o

\* attendanceSchema.index({ course: 1, date: 1 }), mutated: not unique
SessionExistsIgnored(att, c, d) == FALSE

\* attendanceSchema.index({ course: 1, date: 1 }, { unique: true })
SessionExists(att, c, d) == \E a \in att : a.course = c /\ a.date = d

\* enrollment.attendance.totalClasses++, mutated: attendedClasses grows for
\* every status
MarkAlwaysAttended(e, status) ==
  [e EXCEPT !.totalClasses = @ + 1, !.attendedClasses = @ + 1]

\* enrollment.attendance.totalClasses++; attendedClasses++ when the status is
\* present or late (on the in-memory document)
Mark(e, status) ==
  [e EXCEPT !.totalClasses = @ + 1,
            !.attendedClasses = IF status \in {"present", "late"} THEN @ + 1 ELSE @]

\* enrollmentSchema.pre('save'): attendancePercentage is recomputed when
\* totalClasses > 0
EnrollmentPreSave(e) ==
  IF e.totalClasses > 0
  THEN [e EXCEPT !.attendancePercentage = Frac(e.attendedClasses * 100, e.totalClasses)]
  ELSE e

\* enrollment.save(): the attendance summary of the in-memory document
\* replaces that of the stored document with the same _id
SaveAttendance(enrs, doc) ==
  {IF e._id = doc._id
   THEN [e EXCEPT !.totalClasses = doc.totalClasses,
                  !.attendedClasses = doc.attendedClasses,
                  !.attendancePercentage = doc.attendancePercentage]
   ELSE e : e \in enrs}

\* what is kept of a request that has ended: its session and its result
Ended(c, d, result) ==
  [op |-> "recordSession", course |-> c, date |-> d, result |-> result]

\* the request p ends with the given result
Finish(p, result) ==
  /\ pc' = [pc EXCEPT ![p] = "done"]
  /\ req' = [req EXCEPT ![p] = Ended(req[p].course, req[p].date, result)]

\* POST /api/attendance, step 2: check attendance not already marked for the date
RecordStart(p, c, d, marks) ==
  /\ pc[p] = "idle"
  /\ IF SessionExists(attendance, c, d)
     THEN /\ pc' = [pc EXCEPT ![p] = "done"]
          /\ req' = [req EXCEPT ![p] = Ended(c, d, "DuplicateSessionError")]
     ELSE /\ pc' = [pc EXCEPT ![p] = "createSession"]
          /\ req' = [req EXCEPT ![p] =
                       [op |-> "recordSession", course |-> c, date |-> d,
                        marks |-> marks, todo |-> DOMAIN marks, doc |-> NoRequest]]
  /\ UNCHANGED <<courses, enrollments, attendance, last, mockRows, mockNextId, graded, grading, sessionStore>>

\* step 3: Attendance.create({ course, date, students })
RecordCreate(p) ==
  LET r == req[p] IN
  /\ pc[p] = "createSession"
  /\ IF SessionExists(attendance, r.course, r.date)
     THEN Finish(p, "DuplicateSessionError") /\ UNCHANGED attendance
     ELSE /\ attendance' = attendance \cup
                 {[course |-> r.course, date |-> r.date, students |-> r.marks]}
          /\ pc' = [pc EXCEPT ![p] = "find"]
          /\ UNCHANGED req
  /\ UNCHANGED <<courses, enrollments, last, mockRows, mockNextId, graded, grading, sessionStore>>

\* step 4, read: enrollment = Enrollment.findOne({ student, course }), then the
\* increments on the in-memory document; a null enrollment throws
RecordFind(p) ==
  LET r == req[p]
      s == NextStudent(r.todo)
      found == {e \in enrollments : e.student = s /\ e.course = r.course}
  IN
  /\ pc[p] = "find"
  /\ IF found = {}
     THEN Finish(p, "TypeError")
     ELSE /\ \E e \in found : req' = [req EXCEPT ![p].doc = Mark(e, r.marks[s])]
          /\ pc' = [pc EXCEPT ![p] = "save"]
  /\ UNCHANGED <<courses, enrollments, attendance, last, mockRows, mockNextId, graded, grading, sessionStore>>

\* step 4, write: await enrollment.save()
RecordSave(p) ==
  LET r == req[p]
      s == NextStudent(r.todo)
      rest == r.todo \ {s}
  IN
  /\ pc[p] = "save"
  /\ enrollments' = SaveAttendance(enrollments, EnrollmentPreSave(r.doc))
  /\ IF rest = {}
     THEN Finish(p, "ok")
     ELSE /\ pc' = [pc EXCEPT ![p] = "find"]
          /\ req' = [req EXCEPT ![p].todo = rest, ![p].doc = NoRequest]
  /\ UNCHANGED <<courses, attendance, last, mockRows, mockNextId, graded, grading, sessionStore>>

\* the states the ledger is in after the courses were approved and the
\* students of E enrolled, one at a time and without a storage fault
InitAttend ==
  \E E \in SUBSET (Students \X Courses), m \in [Courses -> 1..MaxSeats] :
    LET taken(c) == Cardinality({s \in Students : <<s, c>> \in E}) IN
    /\ Cardinality(E) <= MaxRows
    /\ \A c \in Courses : taken(c) <= m[c]
    /\ courses = [c \in Courses |->
                   [NewCourse(m[c]) EXCEPT !.isApproved = TRUE,
                                           !.currentEnrollment = taken(c)]]
    /\ enrollments = {NewEnrollment(EnrollmentId(x[1], x[2]), x[1], x[2]) : x \in E}
    /\ attendance = {}
    /\ last = Response(IF E = {} THEN "approve" ELSE "enroll", "ok")
    /\ pc = [p \in Procs |-> "idle"]
    /\ req = [p \in Procs |-> NoRequest]
    /\ mockRows = <<>>
    /\ mockNextId = 1
    /\ graded = NoGrade
  /\ graded = NoGrade
  /\ GradingInit
  /\ SessionStoreInit

NextAttend ==
  \/ \E p \in Procs, c \in Courses, d \in Dates, marks \in SessionLists :
       RecordStart(p, c, d, marks)
  \/ \E p \in Procs : RecordCreate(p)
  \/ \E p \in Procs : RecordFind(p)
  \/ \E p \in Procs : RecordSave(p)

SpecAttend == InitAttend /\ [][NextAttend]_vars

(* ------------------- recordSession, one at a time ---------------------- *)
\* the response of POST /api/attendance: on success it carries
\* updatedEnrollments, the number of enrollments the loop saved; an exception
\* thrown by the loop is answered with the error alone
SessionResponse(result, updated) ==
  [op |-> "recordSession", result |-> result, course |-> 0, full |-> FALSE,
   updatedEnrollments |-> updated]

\* the loop over the students still to do, from the enrollments enrs:
\* findOne, the increments, save.  failAt is the student whose save the
\* storage layer rejects (0: none).  The loop ends at the first exception: a
\* null enrollment (TypeError) or the rejected save.
RECURSIVE UpdateLoop(_, _, _, _, _, _)
UpdateLoop(enrs, c, marks, todo, failAt, updated) ==
  IF todo = {}
  THEN [enrollments |-> enrs, result |-> "ok", updated |-> updated]
  ELSE LET s == NextStudent(todo)
           found == {e \in enrs : e.student = s /\ e.course = c}
       IN IF found = {}
          THEN [enrollments |-> enrs, result |-> "TypeError", updated |-> updated]
          ELSE IF s = failAt
          THEN [enrollments |-> enrs, result |-> "StorageError", updated |-> updated]
          ELSE LET e == CHOOSE x \in found : TRUE
                   doc == EnrollmentPreSave(Mark(e, marks[s]))
               IN UpdateLoop(SaveAttendance(enrs, doc), c, marks, todo \ {s},
                             failAt, updated + 1)

\* POST /api/attendance, the whole handler
RecordSession(c, d, marks, failAt) ==
  /\ IF SessionExists(attendance, c, d)
     THEN /\ last' = Response("recordSession", "DuplicateSessionError")
          /\ UNCHANGED <<attendance, enrollments>>
     ELSE LET r == UpdateLoop(enrollments, c, marks, DOMAIN marks, failAt, 0) IN
          /\ Cardinality(attendance) < MaxSessions
          /\ attendance' = attendance \cup
                 {[course |-> c, date |-> d, students |-> marks]}
          /\ enrollments' = r.enrollments
          /\ last' = IF r.result = "ok"
                     THEN SessionResponse("ok", r.updated)
                     ELSE Response("recordSession", r.result)
  /\ UNCHANGED <<courses, pc, req, mockRows, mockNextId, graded, grading, sessionStore>>

NextSession ==
  \/ \E c \in Courses, d \in Dates, marks \in SessionLists :
       \E failAt \in DOMAIN marks \cup {0} : RecordSession(c, d, marks, failAt)
  \/ \E id \in EnrollmentIds : Drop(id)

SpecSession == InitAttend /\ [][NextSession]_vars

(* ------------- recordSession with the direct increment update --------- *)
\* Enrollment.findOneAndUpdate({ student, course }, { $inc: ... }): the
\* counters of the matching document are incremented in the store; no
\* document is saved, so the pre-save hook does not run; no match, no change
IncAttendance(enrs, s, c, status) ==
  {IF e.student = s /\ e.course = c THEN Mark(e, status) ELSE e : e \in enrs}

\* for (const record of attendanceDoc.students) findOneAndUpdate(...)
RECURSIVE IncLoop(_, _, _, _)
IncLoop(enrs, c, marks, todo) ==
  IF todo = {}
  THEN enrs
  ELSE LET s == NextStudent(todo)
       IN IncLoop(IncAttendance(enrs, s, c, marks[s]), c, marks, todo \ {s})

\* marking attendance, then the increment updates of the enrollments
RecordSessionInc(c, d, marks) ==
  /\ IF SessionExists(attendance, c, d)
     THEN /\ last' = Response("recordSession", "DuplicateSessionError")
          /\ UNCHANGED <<attendance, enrollments>>
     ELSE /\ Cardinality(attendance) < MaxSessions
          /\ attendance' = attendance \cup
                 {[course |-> c, date |-> d, students |-> marks]}
          /\ enrollments' = IncLoop(enrollments, c, marks, DOMAIN marks)
          /\ last' = SessionResponse("ok", Cardinality(DOMAIN marks))
  /\ UNCHANGED <<courses, pc, req, mockRows, mockNextId, graded, grading, sessionStore>>

\* both write paths of the attendance counters
NextAggregate ==
  \/ \E c \in Courses, d \in Dates, marks \in SessionLists :
       RecordSession(c, d, marks, 0)
  \/ \E c \in Courses, d \in Dates, marks \in SessionLists :
       RecordSessionInc(c, d, marks)

SpecAggregate == InitAttend /\ [][NextAggregate]_vars

(* --------------------- MockModel in-memory store ----------------------- *)
\* Enrollment extends MockModel with collectionName 'enrollments': the
\* collection is the array storage.enrollments (mockRows) and ids come from
\* storage.nextId.enrollment (mockNextId).  A model instance is a record of
\* its fields; _id = 0 stands for an instance that has no _id yet.
MockStatuses == {"enrolled", "dropped"}

MockInstances ==
  [_id : 0..MaxMockId, student : Students, course : Courses, status : MockStatuses]

\* the queries and update documents the operations are called with
QueryValues(k) ==
  IF k = "_id" THEN 1..MaxMockId ELSE IF k = "student" THEN Students ELSE Courses

Queries ==
  UNION {{q \in [K -> 1..(MaxMockId + NumStudents + NumCourses)] :
            \A k \in K : q[k] \in QueryValues(k)} :
         K \in SUBSET {"_id", "student", "course"}}

Updates == [status : MockStatuses]

\* Object.entries(query).every(([key, value]) => item[key] === value)
Matches(item, query) == \A k \in DOMAIN query : item[k] = query[k]

\* collection.findIndex(item => every query entry equals item's): the first
\* index whose item matches the query, 0 when there is none
FindIndex(rows, query) ==
  IF \E i \in 1..Len(rows) : Matches(rows[i], query)
  THEN CHOOSE i \in 1..Len(rows) :
         Matches(rows[i], query) /\ \A j \in 1..(i - 1) : ~Matches(rows[j], query)
  ELSE 0

\* collection.splice(index, 1)
Splice(rows, index) ==
  [i \in 1..(Len(rows) - 1) |-> IF i < index THEN rows[i] ELSE rows[i + 1]]

\* { ...item, ...updates }
Merge(item, updates) ==
  [k \in DOMAIN item \cup DOMAIN updates |->
     IF k \in DOMAIN updates THEN updates[k] ELSE item[k]]

\* instance.save(): an instance with an _id overwrites the stored item with
\* that _id if there is one, and is otherwise not stored; an instance without
\* an _id takes the next id and is pushed
SaveEffect(inst) ==
  IF inst._id # 0
  THEN LET index == FindIndex(mockRows, [_id |-> inst._id])
       IN /\ mockRows' = IF index # 0
                         THEN [mockRows EXCEPT ![index] = inst]
                         ELSE mockRows
          /\ UNCHANGED mockNextId
  ELSE /\ mockNextId <= MaxMockId
       /\ Len(mockRows) < MaxRows
       /\ mockRows' = Append(mockRows, [inst EXCEPT !._id = mockNextId])
       /\ mockNextId' = mockNextId + 1

\* await instance.save()
save(inst) ==
  /\ SaveEffect(inst)
  /\ UNCHANGED <<courses, enrollments, attendance, last, pc, req, graded, grading, sessionStore>>

\* Enrollment.updateOne(query, updates)
updateOne(query, updates) ==
  /\ LET index == FindIndex(mockRows, query)
     IN mockRows' = IF index # 0
                    THEN [mockRows EXCEPT ![index] = Merge(mockRows[index], updates)]
                    ELSE mockRows
  /\ UNCHANGED <<courses, enrollments, attendance, last, pc, req, mockNextId, graded, grading, sessionStore>>

\* Enrollment.deleteOne(query)
deleteOne(query) ==
  /\ LET index == FindIndex(mockRows, query)
     IN mockRows' = IF index # 0 THEN Splice(mockRows, index) ELSE mockRows
  /\ UNCHANGED <<courses, enrollments, attendance, last, pc, req, mockNextId, graded, grading, sessionStore>>

\* Enrollment.deleteMany(query)
deleteMany(query) ==
  /\ LET Keep(item) == ~Matches(item, query)
     IN mockRows' = SelectSeq(mockRows, Keep)
  /\ UNCHANGED <<courses, enrollments, attendance, last, pc, req, mockNextId, graded, grading, sessionStore>>

NextStore ==
  \/ \E inst \in MockInstances : save(inst)
  \/ \E query \in Queries, updates \in Updates : updateOne(query, updates)
  \/ \E query \in Queries : deleteOne(query)
  \/ \E query \in Queries : deleteMany(query)

SpecStore == Init /\ [][NextStore]_vars

(* ----------------------- MockModel queries ----------------------------- *)
\* Object.entries(query): the keys of the query in each order they can have
\* been inserted in
KeyOrders(query) ==
  {order \in [1..Cardinality(DOMAIN query) -> DOMAIN query] :
     \A i, j \in DOMAIN order : order[i] = order[j] => i = j}

\* collection.find(item => item[key] === value): the first item whose key
\* has the value, as a set of at most one item
FirstWith(rows, key, value) ==
  LET hits == {i \in 1..Len(rows) : rows[i][key] = value} IN
  IF hits = {} THEN {} ELSE {rows[CHOOSE i \in hits : \A j \in hits : i <= j]}

\* MockModel.findOne(query): for each entry of the query in turn, the first
\* item that has that one entry is returned; null (the empty set) if no
\* entry finds an item
RECURSIVE findOne(_, _, _)
findOne(rows, query, order) ==
  IF order = <<>>
  THEN {}
  ELSE LET item == FirstWith(rows, Head(order), query[Head(order)]) IN
       IF item # {} THEN item ELSE findOne(rows, query, Tail(order))

\* MockModel.find(query): every item for the empty query, else the items
\* that have every entry of the query
find(rows, query) ==
  IF DOMAIN query = {}
  THEN {rows[i] : i \in 1..Len(rows)}
  ELSE {rows[i] : i \in {j \in 1..Len(rows) : Matches(rows[j], query)}}

\* Enrollment.findOne(query) and Enrollment.find(query) on the same store
CallFindOne(query, order) ==
  /\ last' = [op |-> "findOne", result |-> "ok", course |-> 0, full |-> FALSE,
              query |-> query,
              one |-> findOne(mockRows, query, order),
              all |-> find(mockRows, query)]
  /\ UNCHANGED <<courses, enrollments, attendance, pc, req, mockRows, mockNextId,
                 graded, grading, sessionStore>>

NextQuery ==
  \/ NextStore
  \/ \E query \in Queries : \E order \in KeyOrders(query) : CallFindOne(query, order)

SpecQuery == Init /\ [][NextQuery]_vars

\* MockModel.findById(id): the first item with that _id, as a set of at most
\* one item
findById(rows, id) == FirstWith(rows, "_id", id)

\* await x.save(); await Enrollment.findById(x._id), for an instance x that
\* is new or carries an _id the store has issued: the response holds x as
\* save returned it, what findById finds and how many items have x's _id
SaveThenFindById(inst) ==
  /\ inst._id < mockNextId
  /\ SaveEffect(inst)
  /\ LET id == IF inst._id # 0 THEN inst._id ELSE mockNextId
     IN last' = [op |-> "save", result |-> "ok", course |-> 0, full |-> FALSE,
                 instance |-> [inst EXCEPT !._id = id],
                 found |-> findById(mockRows', id),
                 count |-> Cardinality({i \in 1..Len(mockRows') : mockRows'[i]._id = id})]
  /\ UNCHANGED <<courses, enrollments, attendance, pc, req, graded, grading, sessionStore>>

NextDurable ==
  \/ NextStore
  \/ \E inst \in MockInstances : SaveThenFindById(inst)

SpecDurable == Init /\ [][NextDurable]_vars

(* ------------------ MockModel attendance collection -------------------- *)
\* Attendance extends MockModel with collectionName 'attendance'.  An
\* instance is new (_id 0), or carries the _id of a stored item it was read
\* from, or an _id given to its constructor.
SessionInstances == [_id : {0, NaN, 1}, course : Courses, date : Dates]

\* collection.findIndex(item => item._id === this._id), 0 when there is none
FindIndexById(rows, id) ==
  LET hits == {i \in 1..Len(rows) : StrictEquals(rows[i]._id, id)} IN
  IF hits = {} THEN 0 ELSE CHOOSE i \in hits : \A j \in hits : i <= j

\* new Attendance(data).save(): MockModel.save with this collection's idKey
saveSession(inst) ==
  /\ IF Truthy(inst._id)
     THEN LET index == FindIndexById(mockSessions, inst._id)
          IN /\ mockSessions' = IF index # 0
                                THEN [mockSessions EXCEPT ![index] = inst]
                                ELSE mockSessions
             /\ UNCHANGED mockSessionNextId
     ELSE LET id == PostIncrement(mockSessionNextId)
          IN /\ Len(mockSessions) < MaxRows
             /\ mockSessions' = Append(mockSessions, [inst EXCEPT !._id = id.value])
             /\ mockSessionNextId' = id.next
  /\ UNCHANGED <<courses, enrollments, attendance, last, pc, req, mockRows, mockNextId,
                 graded, grading>>

\* Attendance.deleteMany({ course })
deleteManySessions(c) ==
  /\ LET Keep(item) == item.course # c
     IN mockSessions' = SelectSeq(mockSessions, Keep)
  /\ UNCHANGED <<courses, enrollments, attendance, last, pc, req, mockRows, mockNextId,
                 graded, grading, mockSessionNextId>>

NextIds ==
  \/ NextStore
  \/ \E inst \in SessionInstances : saveSession(inst)
  \/ \E c \in Courses : deleteManySessions(c)

SpecIds == Init /\ [][NextIds]_vars

(* ------------------------- saving a grade ------------------------------ *)
\* the percentages a document is saved with
GradeInputs == {Some(p) : p \in Percentages} \cup {{}}

\* submission.grade = { percentage }; await submission.save()
SaveSubmission(p) ==
  /\ graded' = SubmissionPreSave([kind |-> "submission", percentage |-> p,
                                  letterGrade |-> Undefined])
  /\ UNCHANGED <<courses, enrollments, attendance, last, pc, req, mockRows, mockNextId, grading, sessionStore>>

\* POST /api/grades: the final course grade document is saved; gpa defaults to 0
SaveGrade(p) ==
  /\ graded' = GradePreSave([kind |-> "grade", percentage |-> p,
                             letterGrade |-> Undefined, gpa |-> 0])
  /\ UNCHANGED <<courses, enrollments, attendance, last, pc, req, mockRows, mockNextId, grading, sessionStore>>

\* a submission saved under the hook of the code map
SaveSubmissionCodeMap(p) ==
  /\ graded' = CodeMapPreSave([kind |-> "codeMap", percentage |-> p,
                               letterGrade |-> Undefined])
  /\ UNCHANGED <<courses, enrollments, attendance, last, pc, req, mockRows, mockNextId, grading, sessionStore>>

NextGrade ==
  \/ \E p \in GradeInputs : SaveSubmission(p)
  \/ \E p \in GradeInputs : SaveGrade(p)
  \/ \E p \in GradeInputs : SaveSubmissionCodeMap(p)

SpecGrade == Init /\ [][NextGrade]_vars

(* --------------------- submissions and their grading ------------------- *)
\* A submission's percentage is held in hundredths of a percent, which is
\* exact for the assignments and penalties below: totalPoints divides 100
\* and latePenalty is a whole percentage.
TotalPointsChoices == {50, 100}
PenaltyChoices == {0, 10, 100}
PointsChoices == {0 - 1, 0, 40, 80, 110}

\* (points / assignment.totalPoints) * 100
RawPercentage(points, totalPoints) == (points * 10000) \div totalPoints

\* percentage * (assignment.latePenalty / 100)
PenaltyAmount(percentage, latePenalty) == (percentage * latePenalty) \div 100

\* the late penalty, applied when the submission is late and a penalty is set
AfterPenalty(percentage, isLate, latePenalty) ==
  IF isLate /\ latePenalty > 0
    THEN percentage - PenaltyAmount(percentage, latePenalty)
    ELSE percentage

\* calculateLetterGrade(percentage): the thresholds are whole percentages, so
\* the letter of a percentage is the letter of its floor
calculateLetterGrade(percentage) == SubmissionLetter((percentage \div 100) * Resolution)

\* the grade subdocument of a submission
NewGrade(points, percentage) ==
  [points |-> points, percentage |-> percentage, letterGrade |-> Undefined]

\* the submission schema's validators on the grade: points min 0, percentage
\* min 0 and max 100
GradeInvalid(grade) ==
  \/ grade.points < 0
  \/ grade.percentage < 0
  \/ grade.percentage > 100 * 100

\* submissionSchema.pre('save'): isLate is taken from submittedAt and the
\* assignment's dueDate; a grade with truthy points gets its percentage,
\* floored at 0, and its letterGrade
SubmissionHook(doc, asg) ==
  LET isLate == doc.submittedAt > asg.dueDate
      late == [doc EXCEPT !.isLate = isLate]
  IN IF doc.grade # {} /\ ValueOf(doc.grade).points # 0
       THEN LET grade == ValueOf(doc.grade)
                percentage == AfterPenalty(RawPercentage(grade.points, asg.totalPoints),
                                           isLate, asg.latePenalty)
            IN [late EXCEPT !.grade =
                  {[grade EXCEPT !.percentage = Max(0, percentage),
                                 !.letterGrade = calculateLetterGrade(percentage)]}]
       ELSE late

\* new Date() a moment later
Tick ==
  /\ clock < MaxTime
  /\ clock' = clock + 1
  /\ UNCHANGED <<courses, enrollments, attendance, last, pc, req, mockRows, mockNextId,
                 graded, assignment, submissions, grades, sessionStore>>

\* POST /api/assignments: the due date must be in the future, totalPoints at
\* least 1, latePenalty between 0 and 100
CreateAssignment(totalPoints, dueDate, allow, latePenalty) ==
  /\ assignment = NoAssignment
  /\ dueDate > clock
  /\ totalPoints >= 1
  /\ latePenalty \in 0..100
  /\ assignment' = [kind |-> "assignment", totalPoints |-> totalPoints,
                    dueDate |-> dueDate, allowLateSubmission |-> allow,
                    latePenalty |-> latePenalty]
  /\ last' = Response("createAssignment", "ok")
  /\ UNCHANGED <<courses, enrollments, attendance, pc, req, mockRows, mockNextId,
                 graded, submissions, clock, grades, sessionStore>>

\* the business rule of PUT /api/assignments/:id, not enforced
SubmissionsExistIgnored == FALSE

\* some submission of the assignment is stored
SubmissionsExist == \E s \in Submitters : submissions[s] # NoSubmission

\* PUT /api/assignments/:id: refused once submissions exist; the due date
\* validator does not run on updates
UpdateAssignment(dueDate, allow, latePenalty) ==
  /\ assignment # NoAssignment
  /\ IF SubmissionsExist
       THEN /\ last' = Response("updateAssignment", "SubmissionsExistError")
            /\ UNCHANGED assignment
       ELSE /\ assignment' = [assignment EXCEPT !.dueDate = dueDate,
                                                !.allowLateSubmission = allow,
                                                !.latePenalty = latePenalty]
            /\ last' = Response("updateAssignment", "ok")
  /\ UNCHANGED <<courses, enrollments, attendance, pc, req, mockRows, mockNextId,
                 graded, submissions, clock, grades, sessionStore>>

\* POST /api/submissions by student s.  The route reads the clock for its
\* late check; the document is created after the uploads are processed, at
\* createdAt, which is what submittedAt defaults to.  The pre-save hook
\* sets isLate.
Submit(s, createdAt) ==
  /\ assignment # NoAssignment
  /\ createdAt >= clock
  /\ LET now == clock
         isLate == now > assignment.dueDate
     IN IF isLate /\ ~assignment.allowLateSubmission
          THEN /\ last' = Response("submit", "LateSubmissionRejectedError")
               /\ UNCHANGED <<submissions, clock>>
          ELSE IF submissions[s] # NoSubmission
            THEN /\ last' = Response("submit", "DuplicateSubmissionError")
                 /\ UNCHANGED <<submissions, clock>>
            ELSE /\ submissions' =
                      [submissions EXCEPT ![s] =
                         SubmissionHook([kind |-> "submission", submittedAt |-> createdAt,
                                         isLate |-> isLate, status |-> "submitted",
                                         grade |-> {}], assignment)]
                 /\ clock' = createdAt
                 /\ last' = Response("submit", "ok")
  /\ UNCHANGED <<courses, enrollments, attendance, pc, req, mockRows, mockNextId,
                 graded, assignment, grades, sessionStore>>

\* PUT /api/submissions/:id/grade: the percentage, the late penalty, the
\* grade written to the submission with status graded, then save: the
\* schema validators, then the pre-save hook
GradeSubmission(s, points) ==
  /\ assignment # NoAssignment
  /\ submissions[s] # NoSubmission
  /\ LET submission == submissions[s]
         percentage == RawPercentage(points, assignment.totalPoints)
         finalPercentage == AfterPenalty(percentage, submission.isLate,
                                         assignment.latePenalty)
         grade == NewGrade(points, finalPercentage)
     IN IF GradeInvalid(grade)
          THEN /\ last' = Response("grade", "InvalidPointsError")
               /\ UNCHANGED submissions
          ELSE /\ submissions' =
                    [submissions EXCEPT ![s] =
                       SubmissionHook([submission EXCEPT !.grade = {grade},
                                                         !.status = "graded"],
                                      assignment)]
               /\ last' = [Response("grade", "ok") EXCEPT !.course = s]
  /\ UNCHANGED <<courses, enrollments, attendance, pc, req, mockRows, mockNextId,
                 graded, assignment, clock, grades, sessionStore>>

NextSubmit ==
  \/ Tick
  \/ \E totalPoints \in TotalPointsChoices, dueDate \in Times, allow \in BOOLEAN,
        latePenalty \in PenaltyChoices :
       CreateAssignment(totalPoints, dueDate, allow, latePenalty)
  \/ \E dueDate \in Times, allow \in BOOLEAN, latePenalty \in PenaltyChoices :
       UpdateAssignment(dueDate, allow, latePenalty)
  \/ \E s \in Submitters, createdAt \in Times : Submit(s, createdAt)
  \/ \E s \in Submitters, points \in PointsChoices : GradeSubmission(s, points)

SpecSubmit == Init /\ [][NextSubmit]_vars

(* --------------------------- course grades ----------------------------- *)
\* the percentages POST /api/grades is called with, in whole percent
FinalPercentageChoices == {0 - 1, 0, 59, 72, 87, 97, 101}

\* a new grade document: percentage 0, letterGrade 'I', gpa 0, not finalized
NewCourseGrade ==
  [kind |-> "grade", percentage |-> Some(0), letterGrade |-> "I", gpa |-> 0,
   isFinalized |-> FALSE]

\* the grade schema's validators: percentage min 0, max 100
CourseGradeInvalid(doc) ==
  \/ ValueOf(doc.percentage) < 0
  \/ ValueOf(doc.percentage) > 100 * Resolution

\* POST /api/grades: find or create the grade document of (student, course),
\* refuse when it is finalized, update the percentage and save; the pre-save
\* hook assigns letterGrade and gpa
UpsertGrade(s, c, percentage) ==
  LET found == IF grades[<<s, c>>] = NoCourseGrade THEN NewCourseGrade ELSE grades[<<s, c>>]
      doc == [found EXCEPT !.percentage = Some(percentage * Resolution)]
  IN /\ IF found.isFinalized
          THEN /\ last' = [Response("upsertGrade", "AlreadyFinalizedError") EXCEPT !.course = c]
               /\ UNCHANGED grades
          ELSE IF CourseGradeInvalid(doc)
            THEN /\ last' = [Response("upsertGrade", "ValidationError") EXCEPT !.course = c]
                 /\ UNCHANGED grades
            ELSE /\ grades' = [grades EXCEPT ![<<s, c>>] = GradePreSave(doc)]
                 /\ last' = [Response("upsertGrade", "ok") EXCEPT !.course = c]
     /\ UNCHANGED <<courses, enrollments, attendance, pc, req, mockRows, mockNextId,
                    graded, assignment, submissions, clock, sessionStore>>

\* PUT /api/grades/:id/finalize: set isFinalized = true and save
FinalizeGrade(s, c) ==
  /\ grades[<<s, c>>] # NoCourseGrade
  /\ grades' = [grades EXCEPT ![<<s, c>>] =
                  GradePreSave([grades[<<s, c>>] EXCEPT !.isFinalized = TRUE])]
  /\ last' = [Response("finalize", "ok") EXCEPT !.course = c]
  /\ UNCHANGED <<courses, enrollments, attendance, pc, req, mockRows, mockNextId,
                 graded, assignment, submissions, clock, sessionStore>>

NextFinal ==
  \/ \E s \in Students, c \in Courses, percentage \in FinalPercentageChoices :
       UpsertGrade(s, c, percentage)
  \/ \E s \in Students, c \in Courses : FinalizeGrade(s, c)

SpecFinal == Init /\ [][NextFinal]_vars

(* ------------------------ all routes together -------------------------- *)
\* the enrollment, attendance, submission and grade routes on one store, one
\* request at a time; the assignment, the grades given, the graded student
\* and the session date are fixed and the session marks are present or
\* absent, to keep the store small
PresentOrAbsent == {marks \in SessionLists :
                      \A s \in DOMAIN marks : marks[s] \in {"present", "absent"}}

NextAll ==
  \/ \E c \in Courses : ApproveCourse(c)
  \/ \E s \in Students, c \in Courses : Enroll(s, c, FALSE)
  \/ \E id \in EnrollmentIds : Drop(id)
  \/ \E id \in EnrollmentIds : Complete(id)
  \/ \E c \in Courses, marks \in PresentOrAbsent : RecordSession(c, 1, marks, 0)
  \/ CreateAssignment(100, MaxTime, TRUE, 10)
  \/ \E s \in Submitters : Submit(s, clock)
  \/ \E s \in Submitters : GradeSubmission(s, 80)
  \/ \E c \in Courses : UpsertGrade(1, c, 87)
  \/ \E c \in Courses : FinalizeGrade(1, c)

SpecAll == Init /\ [][NextAll]_vars

(* ============================== claims ================================= *)
\* The step properties below start with the operation the step's response
\* names (last'.op): every handler action sets it, so the guard only spares
\* evaluating the handler for steps of the other operations.
\* the number of course c's Enrollment documents that hold a seat
ActiveCount(c) == Cardinality(RowsOf(enrollments, c, {"enrolled", "completed"}))

\* student s has an enrolled or completed Enrollment in course c
HasActive(s, c) ==
  \E e \in enrollments :
    e.student = s /\ e.course = c /\ e.status \in {"enrolled", "completed"}

\* C1: after any sequence of enroll and drop operations, successful or
\* failing (no complete has run), every course's currentEnrollment equals the
\* number of its Enrollments whose status is enrolled or completed.
C1_CounterEqualsActiveRows ==
  (\A e \in enrollments : e.status # "completed") =>
    \A c \in Courses : courses[c].currentEnrollment = ActiveCount(c)

C3_FullCourseRejected ==
  [][last'.op = "enroll" => \A s \in Students, c \in Courses, fault \in BOOLEAN :
       (courses[c].currentEnrollment >= courses[c].maxStudents /\ Enroll(s, c, fault))
         => (last' = Response("enroll", "CourseFullError")
             /\ UNCHANGED <<courses, enrollments>>)]_vars

\* C3 witness: an enroll on a full course has just been refused
C3_Witness ==
  /\ last = Response("enroll", "CourseFullError")
  /\ \E c \in Courses : courses[c].currentEnrollment >= courses[c].maxStudents

\* C4: the enrollment store never holds two Enrollment records for one
\* (student, course) pair: a save of a second one is rejected, not stored.
C4_OneEnrollmentPerPair ==
  \A i \in 1..Len(mockRows), j \in 1..Len(mockRows) :
    (mockRows[i].student = mockRows[j].student
     /\ mockRows[i].course = mockRows[j].course) => i = j

\* C5 (as claimed): enroll fails with DuplicateEnrollmentError whenever the
\* student already has an enrolled or completed Enrollment in the course, and
\* nothing changes.
C5_DuplicateWhenever ==
  [][last'.op = "enroll" => \A s \in Students, c \in Courses :
       HasActive(s, c) =>
         \A fault \in BOOLEAN :
           Enroll(s, c, fault)
             => (last' = Response("enroll", "DuplicateEnrollmentError")
                 /\ UNCHANGED <<courses, enrollments>>)]_vars

\* C5 (amended): when the student already has an enrolled or completed
\* Enrollment in the course, enroll fails and changes neither the counter nor
\* any Enrollment; the error is DuplicateEnrollmentError when the course is
\* approved, active and not full, and on a course that is not approved or is
\* full it is the error of the earlier check (CourseNotApprovedError, then
\* CourseFullError).
C5_DuplicateAfterEarlierChecks ==
  [][last'.op = "enroll" => \A s \in Students, c \in Courses :
       HasActive(s, c) =>
         \A fault \in BOOLEAN :
           Enroll(s, c, fault)
             => /\ UNCHANGED <<courses, enrollments>>
                /\ last'.op = "enroll" /\ last'.result # "ok"
                /\ ~courses[c].isApproved
                     => last'.result = "CourseNotApprovedError"
                /\ (courses[c].isApproved
                    /\ courses[c].currentEnrollment >= courses[c].maxStudents)
                     => last'.result = "CourseFullError"
                /\ (courses[c].isApproved /\ courses[c].isActive
                    /\ courses[c].currentEnrollment < courses[c].maxStudents)
                     => last'.result = "DuplicateEnrollmentError"]_vars

\* C5 witness: a second enroll of a student who is enrolled in a course with
\* a free seat has been refused as a duplicate
C5_Witness ==
  /\ last = Response("enroll", "DuplicateEnrollmentError")
  /\ enrollments # {}
  /\ \A e \in enrollments : e.status = "enrolled"
  /\ \A c \in Courses :
       /\ courses[c].isApproved /\ courses[c].isActive
       /\ courses[c].currentEnrollment < courses[c].maxStudents

\* C6: after an enroll has returned, also when the counter increment could not
\* be applied, no course has more Enrollments with status enrolled than its
\* currentEnrollment counts.
C6_NoUncountedEnrollment ==
  \A c \in Courses :
    Cardinality(RowsOf(enrollments, c, {"enrolled"})) <= courses[c].currentEnrollment

\* C7: under any interleaving of the storage steps of concurrent enroll
\* requests, neither currentEnrollment nor the number of enrolled Enrollments
\* of a course exceeds maxStudents.
C7_NeverOverbooked ==
  \A c \in Courses :
    /\ courses[c].currentEnrollment <= courses[c].maxStudents
    /\ Cardinality(RowsOf(enrollments, c, {"enrolled"})) <= courses[c].maxStudents

\* the session document of course c on date d
SessionOf(c, d) == CHOOSE a \in attendance : a.course = c /\ a.date = d

\* C8: when two recordSession requests for different dates of one course have
\* both succeeded (and no other request has run), every Enrollment listed in
\* both sessions reflects both: totalClasses has grown from 0 to 2 and
\* attendedClasses to the number of present/late marks it got.
C8_NoLostUpdate ==
  \A p \in Procs, q \in Procs :
    (/\ p # q
     /\ pc[p] = "done" /\ pc[q] = "done"
     /\ req[p].result = "ok" /\ req[q].result = "ok"
     /\ req[p].course = req[q].course
     /\ req[p].date # req[q].date
     /\ \A r \in Procs \ {p, q} : pc[r] = "idle")
    => LET c == req[p].course
           mp == SessionOf(c, req[p].date).students
           mq == SessionOf(c, req[q].date).students
           attended(m, s) == IF m[s] \in {"present", "late"} THEN 1 ELSE 0
       IN \A e \in enrollments :
            (e.course = c /\ e.student \in DOMAIN mp /\ e.student \in DOMAIN mq)
              => /\ e.totalClasses = 2
                 /\ e.attendedClasses = attended(mp, e.student) + attended(mq, e.student)

\* C9: after a drop has succeeded on a course that was full, the next enroll
\* on that open course succeeds (storage permitting) for every student without
\* an enrolled or completed Enrollment there: for another student and for the
\* student whose Enrollment was dropped.
C9_EnrollAfterDropSucceeds ==
  [][last'.op = "enroll" => \A s \in Students, c \in Courses :
       (/\ last = DropResponse(c, TRUE)
        /\ courses[c].isApproved /\ courses[c].isActive
        /\ ~HasActive(s, c)
        /\ Enroll(s, c, FALSE))
         => last' = Response("enroll", "ok")]_vars

C11_CompleteFrame ==
  [][last'.op = "complete" => \A id \in EnrollmentIds :
       (Complete(id) /\ FindById(enrollments, id) # {})
         => /\ \E e \in FindById(enrollments', id) : e.status = "completed"
            /\ \A e \in enrollments : e._id # id => e \in enrollments'
            /\ Cardinality(enrollments') = Cardinality(enrollments)
            /\ courses' = courses]_vars

\* C11 witness: an Enrollment has been completed on a course that counts a seat
C11_Witness ==
  /\ last = Response("complete", "ok")
  /\ \E e \in enrollments :
       e.status = "completed" /\ courses[e.course].currentEnrollment > 0

\* C12: enroll on a course that is not approved or not active fails with
\* CourseNotApprovedError, creates no Enrollment and leaves currentEnrollment
\* unchanged.
C12_NotOpenRejected ==
  [][last'.op = "enroll" => \A s \in Students, c \in Courses, fault \in BOOLEAN :
       ((~courses[c].isApproved \/ ~courses[c].isActive) /\ Enroll(s, c, fault))
         => (last' = Response("enroll", "CourseNotApprovedError")
             /\ UNCHANGED <<courses, enrollments>>)]_vars

\* the session a recordSession step has created
NewSessions == attendance' \ attendance

C14_PercentageFollowsCounters ==
  \A e \in enrollments :
    e.attendancePercentage =
      IF e.totalClasses > 0
      THEN Frac(e.attendedClasses * 100, e.totalClasses)
      ELSE <<0, 1>>

\* C15: a recordSession for a (course, date) that already has a session ends
\* with DuplicateSessionError; a request that ends with DuplicateSessionError
\* has created no session and changed no Enrollment; and no (course, date)
\* ever has two sessions.
C15_DuplicateSessionRefused ==
  [][\A p \in Procs :
       /\ (pc[p] = "idle" /\ pc'[p] # "idle"
           /\ SessionExists(attendance, req'[p].course, req'[p].date))
            => (pc'[p] = "done" /\ req'[p].result = "DuplicateSessionError")
       /\ (pc[p] # "done" /\ pc'[p] = "done"
           /\ req'[p].result = "DuplicateSessionError")
            => UNCHANGED <<attendance, enrollments>>
       /\ \A a \in attendance', b \in attendance' :
            (a.course = b.course /\ a.date = b.date) => a = b]_vars

\* C15 witness: one request has recorded a session and updated an Enrollment
\* once, a second request for the same course and date was refused
C15_Witness ==
  \E p \in Procs, q \in Procs :
    /\ pc[p] = "done" /\ req[p].result = "ok"
    /\ pc[q] = "done" /\ req[q].result = "DuplicateSessionError"
    /\ req[p].course = req[q].course /\ req[p].date = req[q].date
    /\ \E e \in enrollments : e.course = req[p].course /\ e.totalClasses = 1

\* C16: a recordSession (for a date without a session) whose list contains a
\* student with no active Enrollment in the course fails with
\* UnknownEnrollmentError, creates no session and changes no Enrollment.
C16_UnknownEnrollmentRefused ==
  [][last'.op = "recordSession" =>
       \A c \in Courses, d \in Dates, marks \in SessionLists :
         (/\ ~SessionExists(attendance, c, d)
          /\ \E s \in DOMAIN marks :
               ~\E e \in enrollments :
                  e.student = s /\ e.course = c /\ e.status = "enrolled")
         => \A failAt \in DOMAIN marks \cup {0} :
              RecordSession(c, d, marks, failAt)
                => (last' = Response("recordSession", "UnknownEnrollmentError")
                    /\ UNCHANGED <<attendance, enrollments>>)]_vars

\* the students a recordSession response reports as aggregated: a success
\* response stands for the whole list (updatedEnrollments), an error response
\* names nobody
ReportedUpdated(response, marks) ==
  IF response.result = "ok" THEN DOMAIN marks ELSE {}

\* the listed students whose Enrollment counters the step has incremented
ActuallyUpdated(a) ==
  {s \in DOMAIN a.students :
     \E e \in enrollments, f \in enrollments' :
       /\ e.student = s /\ e.course = a.course /\ f._id = e._id
       /\ f.totalClasses = e.totalClasses + 1}

\* C17: when an Enrollment update fails part-way through recordSession, the
\* session exists with the complete requested list and the result tells, for
\* every listed student, whether the aggregation succeeded: the students it
\* reports as updated are exactly those whose counters were incremented.
C17_PartialFailureReported ==
  [][(last'.op = "recordSession"
      /\ last'.result \notin {"ok", "DuplicateSessionError"}) =>
       /\ NewSessions # {}
       /\ \A a \in NewSessions :
            ReportedUpdated(last', a.students) = ActuallyUpdated(a)]_vars

\* the grading table of the specification: lower bound, letter, GPA in tenths
GradeTable ==
  {<<97, "A+", 40>>, <<93, "A", 40>>, <<90, "A-", 37>>, <<87, "B+", 33>>,
   <<83, "B", 30>>, <<80, "B-", 27>>, <<77, "C+", 23>>, <<73, "C", 20>>,
   <<70, "C-", 17>>, <<67, "D+", 13>>, <<60, "D", 10>>}

\* the row of the highest lower bound the percentage reaches, F / 0.0 if none
TableRow(p) ==
  LET reached == {r \in GradeTable : p >= r[1] * Resolution} IN
  IF reached = {}
  THEN <<0, "F", 0>>
  ELSE CHOOSE r \in reached : \A o \in reached : r[1] >= o[1]

\* the saved document carries a percentage
Graded == graded.kind # "none" /\ graded.percentage # {}

\* the saved document's percentage lies in [lo, hi)
PercentageIn(lo, hi) ==
  /\ ValueOf(graded.percentage) >= lo * Resolution
  /\ ValueOf(graded.percentage) < hi * Resolution

\* the saved document has the letter and, where it has a gpa, the GPA
HasGrade(letter, gpa) ==
  /\ graded.letterGrade = letter
  /\ "gpa" \in DOMAIN graded => graded.gpa = gpa

\* C18: every percentage, below 0 and above 100 included, is mapped to the
\* letter and GPA of the highest inclusive lower bound of the table it
\* reaches, and to F / 0.0 when it reaches none.
C18_GradeTable ==
  Graded => LET row == TableRow(ValueOf(graded.percentage))
            IN HasGrade(row[2], row[3])

C20_TablesAgree ==
  graded.kind \in {"submission", "codeMap"} =>
    graded.letterGrade =
      GradePreSave([kind |-> "grade", percentage |-> graded.percentage,
                    letterGrade |-> Undefined, gpa |-> 0]).letterGrade

\* the submission a successful grade has just written, and its grade
GradedSubmission == submissions'[last'.course]
StoredGrade == ValueOf(GradedSubmission.grade)

\* the letter of the grading table for a percentage in hundredths
TableLetter(percentage) == TableRow((percentage \div 100) * Resolution)[2]

\* C21: a successful grade stores raw - raw * penalty / 100, floored at 0, on
\* a late submission of an assignment that allows late submission, stores
\* raw = points / totalPoints * 100 on a submission that is not late, and
\* stores the letter of the grading table for the stored percentage.
C21_StoredGrade ==
  [][(last'.op = "grade" /\ last'.result = "ok") =>
       LET raw == (StoredGrade.points * 10000) \div assignment.totalPoints
           penalised == raw - (raw * assignment.latePenalty) \div 100
       IN /\ (GradedSubmission.isLate /\ assignment.allowLateSubmission)
               => StoredGrade.percentage = Max(0, penalised)
          /\ ~GradedSubmission.isLate => StoredGrade.percentage = raw
          /\ StoredGrade.letterGrade = TableLetter(StoredGrade.percentage)]_vars

\* the submission of s is late and its assignment does not allow late submission
LateNotAllowed(s) ==
  /\ submissions[s] # NoSubmission
  /\ submissions[s].isLate
  /\ ~assignment.allowLateSubmission

\* C22: grading a late submission of an assignment that does not allow late
\* submission leaves that submission as it was, and when every stored
\* submission is such a submission the grade fails with
\* LateSubmissionRejectedError (or with InvalidPointsError, the points being
\* checked first).
C22_LateRejectedAtGrading ==
  [][last'.op = "grade" =>
       /\ \A s \in Submitters : LateNotAllowed(s) => submissions'[s] = submissions[s]
       /\ (\A s \in Submitters : LateNotAllowed(s))
            => last'.result \in {"LateSubmissionRejectedError", "InvalidPointsError"}]_vars

\* C23: a grade that succeeds was given points between 0 and the
\* assignment's totalPoints and stores a percentage between 0 and 100; a
\* grade that fails with InvalidPointsError leaves every submission as it was.
C23_PointsInRange ==
  [][last'.op = "grade" =>
       /\ last'.result = "ok" =>
            /\ StoredGrade.points >= 0
            /\ StoredGrade.points <= assignment.totalPoints
            /\ StoredGrade.percentage >= 0
            /\ StoredGrade.percentage <= 100 * 100
       /\ last'.result = "InvalidPointsError" => UNCHANGED submissions]_vars

Finalized(s, c) == grades[<<s, c>>] # NoCourseGrade /\ grades[<<s, c>>].isFinalized

\* C25: a finalized course grade is never changed again, and while every
\* stored grade of a course is finalized (and there is one), every upsertGrade
\* and finalize on that course fails with AlreadyFinalizedError.
C25_FinalizedLatch ==
  [][/\ \A s \in Students, c \in Courses :
          Finalized(s, c) => grades'[<<s, c>>] = grades[<<s, c>>]
     /\ \A c \in Courses :
          (/\ last'.op \in {"upsertGrade", "finalize"}
           /\ last'.course = c
           /\ \A s \in Students : Finalized(s, c))
            => last'.result = "AlreadyFinalizedError"]_vars

\* the attendance counters of the Enrollment e are the same after the step
CountersKept(e) ==
  \E f \in enrollments' :
    /\ f._id = e._id
    /\ f.totalClasses = e.totalClasses
    /\ f.attendedClasses = e.attendedClasses

\* C26: a step that changes some course's currentEnrollment is an enroll or
\* a drop, and a step that changes the attendance counters of an existing
\* Enrollment is a recordSession; so grade, upsertGrade, finalize, complete
\* and recordSession leave every currentEnrollment alone and enroll, drop,
\* complete, grade, upsertGrade and finalize leave the counters alone.
C26_AggregatesFramed ==
  [][/\ (\E c \in Courses : courses'[c].currentEnrollment # courses[c].currentEnrollment)
          => last'.op \in {"enroll", "drop"}
     /\ (\E e \in enrollments : ~CountersKept(e))
          => last'.op = "recordSession"]_vars

\* a course grade has just been finalized, a submission is graded, and there
\* is an Enrollment with recorded attendance that has since been completed
C26_Witness ==
  /\ last.op = "finalize"
  /\ \E s \in Submitters : submissions[s] # NoSubmission /\ submissions[s].status = "graded"
  /\ \E e \in enrollments :
       /\ e.status = "completed"
       /\ e.totalClasses > 0
       /\ courses[e.course].currentEnrollment > 0

\* every course's currentEnrollment is the number of its Enrollments with
\* status enrolled or completed
CounterTracksActive ==
  \A c \in Courses : courses[c].currentEnrollment = ActiveCount(c)

\* C27: every successful enroll, drop and complete, a complete of a dropped
\* Enrollment included, keeps every course's currentEnrollment equal to the
\* number of its Enrollments with status enrolled or completed.
C27_CounterAfterComplete ==
  [][(/\ last'.op \in {"enroll", "drop", "complete"}
      /\ last'.result = "ok"
      /\ CounterTracksActive)
       => CounterTracksActive']_vars

\* C28: findOne(query) returns a record exactly when find(query) returns
\* some, and the record it returns is one of those find(query) returns, so
\* it has every entry of the query.
C28_FindOneMatchesAll ==
  last.op = "findOne" =>
    /\ (last.one # {}) <=> (last.all # {})
    /\ last.one \subseteq last.all
    /\ \A item \in last.one : Matches(item, last.query)

\* every item of the collection has a number other than NaN as its _id, and
\* no two items have the same _id
IdsDefinedAndDistinct(rows) ==
  /\ \A i \in 1..Len(rows) : rows[i]._id \notin {JsUndefined, 0, NaN}
  /\ \A i, j \in 1..Len(rows) : rows[i]._id = rows[j]._id => i = j

\* C29: across save, updateOne, deleteOne and deleteMany every stored record
\* of a collection, the enrollments and the attendance collection here, has
\* a defined numeric _id that no other record of the collection has.
C29_IdsDefinedAndDistinct ==
  /\ IdsDefinedAndDistinct(mockRows)
  /\ IdsDefinedAndDistinct(mockSessions)

\* C30: after save has returned for an instance that is new or was read
\* from the store, findById of its _id returns a record with the instance's
\* fields and the collection holds exactly one record with that _id.
C30_SaveDurable ==
  last.op = "save" =>
    /\ last.found = {last.instance}
    /\ last.count = 1

====
